---- MODULE Spec2Model ----
(***************************************************************************)
(* A model of src/unicorn_baseline/vision/pathology/wsi.py: the pyramid    *)
(* index (level selection for a target spacing), the one-shot diagnostic   *)
(* guarded by _warning_lock, the per-region tile grid (process_contour)    *)
(* and the thread-pool dispatcher that merges the regions' results         *)
(* (process_contours, get_tile_coordinates).                               *)
(*                                                                         *)
(* Numbers.  Spacings are positive integers (a multiple of a common unit,  *)
(* 0.25 um in the spec's scenario).  A float the code computes by a        *)
(* division is kept as the exact fraction <<numerator, denominator>>; a    *)
(* comparison of two fractions is done by cross multiplication and int()   *)
(* of a non-negative fraction is \div.  Level indexes start at 0 as in the *)
(* code; None is the empty sequence and a value v that may be None is <<v>>.*)
(***************************************************************************)
EXTENDS Integers, Sequences, FiniteSets, TLC

(***************************************************************************)
(* Bounds of the model.                                                    *)
(***************************************************************************)
MaxLevels == 3
MaxWorkers == 2
MaxRegions == 2
MaxTileSize == 3
MaxContours == 4

VARIABLES
    level_dimensions,     \* self.level_dimensions: level -> <<width, height>>
    spacings,             \* self.spacings: level -> spacing
    seg_level,            \* self.seg_level
    found,                \* the regions cv2.findContours + filter_contours yield for this slide
    mask_contours,        \* cv2.findContours(self.binary_mask): index -> [area, parent]
    level_spacing_cache,  \* self._level_spacing_cache: level -> spacing, partial
    printed_warning,      \* the module global _printed_warning
    warning_lock,         \* _warning_lock: None, or <<t>> when thread t holds it
    emitted,              \* how many times the diagnostic was printed (history)
    params,               \* the TilingParams of the call and num_workers
    filter_params,        \* the FilterParams handed to filter_contours (areas scaled)
    contours,             \* the contours handed to process_contours
    th,                   \* per thread: position and locals
    queue_next,           \* executor work queue: the next region index to hand out
    results,              \* region index -> the future's result, once set
    completed,            \* region indexes in the order their futures completed (history)
    mi,                   \* position of the merge loop in results
    running_x_coords,
    running_y_coords,
    running_tissue_pct,
    tile_level,
    resize_factor,
    outcome,              \* what the call returned or raised
    previous              \* what the call before it returned or raised (history)

slide == <<level_dimensions, spacings, seg_level, found, mask_contours>>
diag == <<printed_warning, warning_lock, emitted>>
request == <<params, filter_params, contours>>
pool == <<queue_next, results, completed>>
merge == <<mi, running_x_coords, running_y_coords, running_tissue_pct,
           tile_level, resize_factor>>
vars == <<slide, level_spacing_cache, diag, request, th, pool, merge, outcome, previous>>

None == << >>
Some(v) == <<v>>

Abs(x) == IF x < 0 THEN -x ELSE x
Min(a, b) == IF a <= b THEN a ELSE b

Main == 0
Workers == 1..MaxWorkers
Threads == {Main} \cup Workers

(***************************************************************************)
(* Pyramids.  The reader (wholeslidedata) supplies level shapes and level  *)
(* spacings independently (self.wsi.shapes, self.wsi.spacings); the data   *)
(* model orders them: level 0 is the finest, spacing does not decrease and *)
(* no dimension grows with the level index.                                *)
(***************************************************************************)
Shapes == {<<16, 16>>, <<8, 8>>, <<8, 4>>, <<6, 6>>}
SpacingValues == {1, 2, 4}

GeneratedPyramids ==
    UNION { { [dims |-> d, sp |-> s] :
                d \in {x \in [0..(n-1) -> Shapes] :
                          \A i \in 0..(n-2) : /\ x[i][1] >= x[i+1][1]
                                              /\ x[i][2] >= x[i+1][2]},
                s \in {y \in [0..(n-1) -> SpacingValues] :
                          \A i \in 0..(n-2) : y[i] <= y[i+1]} }
            : n \in 1..MaxLevels }

\* The spec's end-to-end pyramid: level-0 spacing 0.25, downsamples 1, 4, 16, 64
\* (spacings in units of 0.25).
ScenarioPyramid ==
    [dims |-> [i \in 0..3 |-> IF i = 0 THEN <<64, 64>>
                              ELSE IF i = 1 THEN <<16, 16>>
                              ELSE IF i = 2 THEN <<4, 4>> ELSE <<1, 1>>],
     sp |-> [i \in 0..3 |-> IF i = 0 THEN 1
                            ELSE IF i = 1 THEN 4
                            ELSE IF i = 2 THEN 16 ELSE 64]]

Levels == DOMAIN spacings

(***************************************************************************)
(* get_downsamples (lines 123-128): level -> the pair of fractions          *)
(* (dim_0[0] / dim[0], dim_0[1] / dim[1]).                                  *)
(***************************************************************************)
LevelDownsamples(dims) ==
    [l \in DOMAIN dims |-> << <<dims[0][1], dims[l][1]>>, <<dims[0][2], dims[l][2]>> >>]

level_downsamples == LevelDownsamples(level_dimensions)

(***************************************************************************)
(* get_best_level_for_downsample_custom (line 227):                        *)
(* int(np.argmin([abs(x - downsample) for x, _ in level_downsamples])),    *)
(* the first level at the least distance; only the x ratio is read.        *)
(* downsample is the fraction ds[1] / ds[2].                               *)
(***************************************************************************)
DistLeq(a, b, ds) ==
    \* |a[1]/a[2] - ds[1]/ds[2]| <= |b[1]/b[2] - ds[1]/ds[2]|
    Abs(a[1] * ds[2] - ds[1] * a[2]) * b[2] <= Abs(b[1] * ds[2] - ds[1] * b[2]) * a[2]

\* The levels at the least distance from ds.
Nearest(dims, ds) ==
    LET x == [l \in DOMAIN dims |-> LevelDownsamples(dims)[l][1]]
    IN  {l \in DOMAIN dims : \A k \in DOMAIN dims : DistLeq(x[l], x[k], ds)}

\* A variant that takes the last of the nearest levels.
ArgminLast(dims, ds) ==
    CHOOSE l \in Nearest(dims, ds) : \A k \in Nearest(dims, ds) : l >= k

get_best_level_for_downsample_custom(dims, ds) ==
    CHOOSE l \in Nearest(dims, ds) : \A k \in Nearest(dims, ds) : l <= k

(***************************************************************************)
(* The test of lines 190, 199 and 204:                                     *)
(* abs(level_spacing - target_spacing) / target_spacing <= tolerance,      *)
(* tolerance the fraction tol[1] / tol[2].                                 *)
(***************************************************************************)
\* A variant with a strict comparison.
WithinToleranceStrict(level_spacing, target, tol) ==
    Abs(level_spacing - target) * tol[2] < tol[1] * target

\* A variant without abs().
WithinToleranceNoAbs(level_spacing, target, tol) ==
    (level_spacing - target) * tol[2] <= tol[1] * target

WithinTolerance(level_spacing, target, tol) ==
    Abs(level_spacing - target) * tol[2] <= tol[1] * target

(***************************************************************************)
(* get_level_spacing (lines 161-163).  self.spacings is a Python list: an  *)
(* index in -n..-1 counts from the end, any other index outside 0..n-1     *)
(* raises IndexError before the cache is written.                          *)
(***************************************************************************)
NumLevels == Cardinality(DOMAIN spacings)

\* A variant that takes only the indexes 0..n-1.
IndexOkFromZero(level) == level \in 0..(NumLevels - 1)

IndexOk(level) == level \in (0 - NumLevels)..(NumLevels - 1)

ListItem(level) == spacings[IF level < 0 THEN level + NumLevels ELSE level]

\* the value returned
LevelSpacing(cache, level) ==
    IF level \in DOMAIN cache THEN cache[level] ELSE ListItem(level)

\* A variant of the cache that holds the last level looked up only.
CacheAfterLastOnly(cache, level) == (level :> LevelSpacing(cache, level))

\* the cache after the lookup
CacheAfter(cache, level) ==
    IF level \in DOMAIN cache THEN cache ELSE cache @@ (level :> ListItem(level))

(***************************************************************************)
(* Threads.  Thread 0 is the caller; threads 1..MaxWorkers are the pool's. *)
(* th[t] holds the position of thread t and the locals of the function it  *)
(* is in: level, level_spacing, is_within_tolerance and verbose of         *)
(* get_best_level_for_spacing, guess (the level line 185 returned), ret    *)
(* (who called it) and task (the region index of process_single_contour).  *)
(***************************************************************************)
IdleThread ==
    [pc |-> "idle", ret |-> "none", task |-> 0, level |-> 0, guess |-> 0,
     level_spacing |-> 0, within |-> FALSE, verbose |-> FALSE]

\* The call get_best_level_for_spacing(params.spacing, params.tolerance, verbose).
CallBestLevel(loc, ret, verbose) ==
    [loc EXCEPT !.pc = "gbl_entry", !.ret = ret, !.verbose = verbose,
                !.within = FALSE, !.level = 0, !.guess = 0, !.level_spacing = 0]

\* Line 482: detect_contours leaves verbose at its default (line 166).
DetectVerbose == FALSE

\* A variant in which process_contour leaves verbose at its default too.
ProcessVerboseDefault == FALSE

\* Lines 734-736: process_contour passes verbose=True.
ProcessVerbose == TRUE

\* Lines 203-206, then 207 or 214: the diagnostic is due when the tolerance is
\* not met and verbose is set.
AfterWalk(loc, level_spacing) ==
    IF /\ ~WithinTolerance(level_spacing, params.spacing, params.tolerance)
       /\ loc.verbose
    THEN "lock_acquire"
    ELSE "gbl_return"

\* Lines 183-192: the initial guess and its spacing; within the tolerance, the
\* call returns at once.
GblEntry(t) ==
    /\ th[t].pc = "gbl_entry"
    /\ LET c0 == CacheAfter(level_spacing_cache, 0)
           spacing == LevelSpacing(level_spacing_cache, 0)
           level == get_best_level_for_downsample_custom(
                        level_dimensions, <<params.spacing, spacing>>)
           ls == LevelSpacing(c0, level)
       IN  /\ level_spacing_cache' = CacheAfter(c0, level)
           /\ IF WithinTolerance(ls, params.spacing, params.tolerance)
              THEN th' = [th EXCEPT ![t].level = level, ![t].guess = level,
                                    ![t].level_spacing = ls, ![t].within = TRUE,
                                    ![t].pc = "gbl_return"]
              ELSE th' = [th EXCEPT ![t].level = level, ![t].guess = level,
                                    ![t].level_spacing = ls, ![t].pc = "gbl_loop"]
    /\ UNCHANGED <<slide, previous, diag, request, pool, merge, outcome>>

\* Line 196: the loop condition.
WalkContinues(level, level_spacing, target) == level > 0 /\ level_spacing > target

\* A variant that steps by two levels.
WalkNextSkip(level) == level - 2

\* Line 197: level -= 1.
WalkNext(level) == level - 1

\* Lines 196-201: one iteration of the walk toward level 0; the break of line
\* 201 leaves the tolerance met, so lines 203-206 lead to the return.
GblWalk(t) ==
    /\ th[t].pc = "gbl_loop"
    /\ WalkContinues(th[t].level, th[t].level_spacing, params.spacing)
    /\ LET level == WalkNext(th[t].level)
           ls == LevelSpacing(level_spacing_cache, level)
       IN  /\ IndexOk(level)
           /\ level_spacing_cache' = CacheAfter(level_spacing_cache, level)
           /\ IF WithinTolerance(ls, params.spacing, params.tolerance)
              THEN th' = [th EXCEPT ![t].level = level, ![t].level_spacing = ls,
                                    ![t].within = TRUE,
                                    ![t].pc = AfterWalk(th[t], ls)]
              ELSE th' = [th EXCEPT ![t].level = level, ![t].level_spacing = ls]
    /\ UNCHANGED <<slide, previous, diag, request, pool, merge, outcome>>

\* Line 196, condition false: the walk ends; lines 203-206.
GblWalkEnd(t) ==
    /\ th[t].pc = "gbl_loop"
    /\ ~WalkContinues(th[t].level, th[t].level_spacing, params.spacing)
    /\ th' = [th EXCEPT ![t].pc = AfterWalk(th[t], th[t].level_spacing)]
    /\ UNCHANGED <<slide, previous, level_spacing_cache, diag, request, pool, merge, outcome>>

\* A variant in which the with-statement does not exclude other threads.
LockNotHeld == TRUE

\* threading.Lock: acquire blocks while another thread holds the lock.
LockIsFree == warning_lock = None

\* Line 207: with _warning_lock (enter).
LockAcquire(t) ==
    /\ th[t].pc = "lock_acquire"
    /\ LockIsFree
    /\ warning_lock' = Some(t)
    /\ th' = [th EXCEPT ![t].pc = "lock_test"]
    /\ UNCHANGED <<slide, previous, level_spacing_cache, printed_warning, emitted, request,
                   pool, merge, outcome>>

\* Line 208: if not _printed_warning.
LockTest(t) ==
    /\ th[t].pc = "lock_test"
    /\ IF ~printed_warning
       THEN th' = [th EXCEPT ![t].pc = "lock_print"]
       ELSE th' = [th EXCEPT ![t].pc = "lock_release"]
    /\ UNCHANGED <<slide, previous, level_spacing_cache, diag, request, pool, merge, outcome>>

\* Lines 209-212: print the diagnostic, set the flag.
LockPrint(t) ==
    /\ th[t].pc = "lock_print"
    /\ emitted' = emitted + 1
    /\ printed_warning' = TRUE
    /\ th' = [th EXCEPT ![t].pc = "lock_release"]
    /\ UNCHANGED <<slide, previous, level_spacing_cache, warning_lock, request, pool, merge,
                   outcome>>

\* Line 207: with _warning_lock (exit).
LockRelease(t) ==
    /\ th[t].pc = "lock_release"
    /\ warning_lock' = None
    /\ th' = [th EXCEPT ![t].pc = "gbl_return"]
    /\ UNCHANGED <<slide, previous, level_spacing_cache, printed_warning, emitted, request,
                   pool, merge, outcome>>

\* get_best_level_for_spacing, one step of thread t.
BestLevelStep(t) ==
    \/ GblEntry(t)
    \/ GblWalk(t)
    \/ GblWalkEnd(t)
    \/ LockAcquire(t)
    \/ LockTest(t)
    \/ LockPrint(t)
    \/ LockRelease(t)

(***************************************************************************)
(* Regions.  A contour is kept as what process_contour reads of it: its    *)
(* bounding rectangle <<x, y, w, h>> in level-0 pixels (cv2.boundingRect)  *)
(* and the tissue under it; a hole is the rectangle <<x0, y0, x1, y1>>.    *)
(***************************************************************************)
Region(rect, tissue, holes) == [rect |-> rect, tissue |-> tissue, holes |-> holes]

(***************************************************************************)
(* The tissue-ratio oracle, HasEnoughTissue.check_coordinates of           *)
(* wsi_utils: for a candidate, a keep flag and a tissue percentage.  It is *)
(* a fixed function of the region, the mask and the coordinate; here the   *)
(* tissue of a region is everywhere ("all"), nowhere ("none") or only left *)
(* of the middle of its bounding rectangle ("left").                       *)
(***************************************************************************)
HasEnoughTissue(region, c) ==
    LET keep == CASE region.tissue = "all" -> TRUE
                  [] region.tissue = "none" -> FALSE
                  [] OTHER -> 2 * (c[1] - region.rect[1]) < region.rect[3]
    IN  [keep |-> keep, pct |-> IF keep THEN 100 - ((c[1] + c[2]) % 3) ELSE 0]

(***************************************************************************)
(* isInHoles (lines 527-536): the tile centre (pt + tile_size / 2) lies    *)
(* strictly inside a hole (cv2.pointPolygonTest(...) > 0).                 *)
(***************************************************************************)
isInHoles(holes, pt, tile_size) ==
    \E i \in DOMAIN holes :
        /\ 2 * holes[i][1] < 2 * pt[1] + tile_size
        /\ 2 * pt[1] + tile_size < 2 * holes[i][3]
        /\ 2 * holes[i][2] < 2 * pt[2] + tile_size
        /\ 2 * pt[2] + tile_size < 2 * holes[i][4]

\* A variant that lists only the positions a whole step before stop.
ARangeWholeSteps(start, stop, step) ==
    LET n == IF stop > start THEN (stop - start) \div step ELSE 0
    IN  [i \in 1..n |-> start + (i - 1) * step]

(***************************************************************************)
(* np.arange(start, stop, step) for integers and step > 0.                 *)
(***************************************************************************)
ARange(start, stop, step) ==
    LET n == IF stop > start THEN (stop - start + step - 1) \div step ELSE 0
    IN  [i \in 1..n |-> start + (i - 1) * step]

\* A variant of the grid that lists the candidates row by row (indexing="xy").
MeshGridXY(x_range, y_range) ==
    LET nx == Len(x_range)
        ny == Len(y_range)
    IN  [k \in 1..(nx * ny) |-> <<x_range[((k - 1) % nx) + 1], y_range[((k - 1) \div nx) + 1]>>]

(***************************************************************************)
(* Lines 789-792: np.meshgrid(x_range, y_range, indexing="ij"), flattened  *)
(* and transposed: candidate k is (x_range[i], y_range[j]), k = i*ny + j.  *)
(***************************************************************************)
MeshGrid(x_range, y_range) ==
    LET nx == Len(x_range)
        ny == Len(y_range)
    IN  [k \in 1..(nx * ny) |-> <<x_range[((k - 1) \div ny) + 1], y_range[((k - 1) % ny) + 1]>>]

(***************************************************************************)
(* process_contour, lines 737-762: the geometry of the grid for a region,  *)
(* given the (tile_level, is_within_tolerance) of line 734.                *)
(***************************************************************************)
\* lines 737-740
ResizeFactor(p, level, within) ==
    IF within THEN <<1, 1>> ELSE <<p.spacing, spacings[level]>>

\* line 742: int(tile_size * resize_factor)
TileSizeResized(p, level, within) ==
    (p.tile_size * ResizeFactor(p, level, within)[1]) \div ResizeFactor(p, level, within)[2]

\* line 743: int(tile_size_resized * (1.0 - overlap))
StepSize(p, level, within) ==
    (TileSizeResized(p, level, within) * (p.overlap[2] - p.overlap[1])) \div p.overlap[2]

\* A variant that keeps the fraction's numerator only.
TileDownsampleNoDiv(level) ==
    <<level_dimensions[0][1], level_dimensions[0][2]>>

\* lines 755-758: (int(level_downsamples[tile_level][0]), int(...[1]))
TileDownsample(level) ==
    <<level_downsamples[level][1][1] \div level_downsamples[level][1][2],
      level_downsamples[level][2][1] \div level_downsamples[level][2][2]>>

\* lines 759-762
RefTileSize(p, level, within) ==
    <<TileSizeResized(p, level, within) * TileDownsample(level)[1],
      TileSizeResized(p, level, within) * TileDownsample(level)[2]>>

\* lines 784-785
RefStepSize(p, level, within) ==
    <<StepSize(p, level, within) * TileDownsample(level)[1],
      StepSize(p, level, within) * TileDownsample(level)[2]>>

\* A variant that clips at the slide's edge without the tile's extent.
StopNoExtent(p, region, level, within) ==
    IF p.use_padding
    THEN <<region.rect[1] + region.rect[3], region.rect[2] + region.rect[4]>>
    ELSE <<Min(region.rect[1] + region.rect[3], level_dimensions[0][1] + 1),
           Min(region.rect[2] + region.rect[4], level_dimensions[0][2] + 1)>>

\* lines 764-770: (stop_x, stop_y)
Stop(p, region, level, within) ==
    IF p.use_padding
    THEN <<region.rect[1] + region.rect[3], region.rect[2] + region.rect[4]>>
    ELSE <<Min(region.rect[1] + region.rect[3],
               level_dimensions[0][1] - RefTileSize(p, level, within)[1] + 1),
           Min(region.rect[2] + region.rect[4],
               level_dimensions[0][2] - RefTileSize(p, level, within)[2] + 1)>>

\* lines 787-788 raise (np.arange with a step of 0) when this holds
ZeroStep(p, level, within) ==
    \/ RefStepSize(p, level, within)[1] = 0
    \/ RefStepSize(p, level, within)[2] = 0

\* lines 787-792: coord_candidates
CoordCandidates(p, region, level, within) ==
    MeshGrid(ARange(region.rect[1], Stop(p, region, level, within)[1],
                    RefStepSize(p, level, within)[1]),
             ARange(region.rect[2], Stop(p, region, level, within)[2],
                    RefStepSize(p, level, within)[2]))

\* lines 795-804: the candidates kept by the oracle and, with drop_holes, not in a hole
FilteredCoordinates(p, region, level, within) ==
    LET Kept(c) ==
            /\ HasEnoughTissue(region, c).keep
            /\ p.drop_holes => ~isInHoles(region.holes, c, RefTileSize(p, level, within)[1])
    IN  SelectSeq(CoordCandidates(p, region, level, within), Kept)

\* A variant that reports the level and the resize factor of an empty region too.
ContourResultAlwaysLevel(p, region, level, within) ==
    LET f == FilteredCoordinates(p, region, level, within)
    IN  [raised |-> FALSE,
         x_coords |-> [k \in 1..Len(f) |-> f[k][1]],
         y_coords |-> [k \in 1..Len(f) |-> f[k][2]],
         tissue_pct |-> [k \in 1..Len(f) |-> HasEnoughTissue(region, f[k]).pct],
         tile_level |-> Some(level),
         resize_factor |-> Some(ResizeFactor(p, level, within))]

RaisedResult ==
    [raised |-> TRUE, x_coords |-> << >>, y_coords |-> << >>, tissue_pct |-> << >>,
     tile_level |-> None, resize_factor |-> None]

\* lines 806-820: what process_contour returns
ContourResult(p, region, level, within) ==
    LET f == FilteredCoordinates(p, region, level, within)
    IN  IF Len(f) > 0
        THEN [raised |-> FALSE,
              x_coords |-> [k \in 1..Len(f) |-> f[k][1]],
              y_coords |-> [k \in 1..Len(f) |-> f[k][2]],
              tissue_pct |-> [k \in 1..Len(f) |-> HasEnoughTissue(region, f[k]).pct],
              tile_level |-> Some(level),
              resize_factor |-> Some(ResizeFactor(p, level, within))]
        ELSE [raised |-> FALSE, x_coords |-> << >>, y_coords |-> << >>,
              tissue_pct |-> << >>, tile_level |-> None, resize_factor |-> None]

(***************************************************************************)
(* process_contour after line 734 returned, by thread t for region         *)
(* th[t].task: lines 737-820.  The result is the future's result (or its   *)
(* exception); a pool thread then looks for more work, its locals gone;    *)
(* the caller of a direct call is done.                                    *)
(***************************************************************************)
ProcessContourBody(t) ==
    /\ th[t].pc = "gbl_return"
    /\ th[t].ret = "process"
    /\ LET level == th[t].level
           within == th[t].within
           region == contours[th[t].task]
       IN  /\ level_spacing_cache' = CacheAfter(level_spacing_cache, level)
           /\ results' = results @@
                 (th[t].task :> IF ZeroStep(params, level, within)
                                THEN RaisedResult
                                ELSE ContourResult(params, region, level, within))
    /\ completed' = Append(completed, th[t].task)
    /\ th' = [th EXCEPT ![t] = IF t = Main
                                 THEN [th[t] EXCEPT !.pc = "done", !.ret = "none"]
                                 ELSE IdleThread]
    /\ UNCHANGED <<slide, previous, diag, request, queue_next, merge, outcome>>

(***************************************************************************)
(* get_tile_coordinates, lines 369-374: the level-0 spacing is looked up   *)
(* and detect_contours calls get_best_level_for_spacing (line 482, verbose *)
(* left at False).  A slide context serves its requests one after another, *)
(* each with the configuration it was given; what the locals of the call   *)
(* before held stays in place until process_contours sets them again.      *)
(***************************************************************************)
StartRequest ==
    /\ th[Main].pc \in {"idle", "done"}
    /\ \A w \in Workers : th[w].pc = "idle"
    /\ level_spacing_cache' = CacheAfter(level_spacing_cache, 0)
    /\ th' = [th EXCEPT ![Main] = CallBestLevel(IdleThread, "detect", DetectVerbose)]
    /\ previous' = outcome
    /\ outcome' = [kind |-> "none"]
    /\ UNCHANGED <<slide, diag, request, pool, merge>>

\* A variant in which the running lists are kept by the slide object from one
\* call to the next instead of being set anew.
DetectContoursReturnKeepingLists ==
    /\ th[Main].pc = "gbl_return"
    /\ th[Main].ret = "detect"
    /\ contours' = found
    /\ queue_next' = 1
    /\ results' = << >>
    /\ completed' = << >>
    /\ mi' = 1
    /\ tile_level' = None
    /\ resize_factor' = None
    /\ th' = [th EXCEPT ![Main].pc = "pool", ![Main].ret = "none"]
    /\ UNCHANGED <<slide, previous, level_spacing_cache, diag, params, filter_params,
                   outcome, running_x_coords, running_y_coords, running_tissue_pct>>

(***************************************************************************)
(* detect_contours, lines 483-509, then process_contours, lines 643-664:   *)
(* the contours found are handed to process_contours, which clears its     *)
(* running lists and submits one task per contour, in order, to a pool of  *)
(* num_workers threads.                                                    *)
(***************************************************************************)
DetectContoursReturn ==
    /\ th[Main].pc = "gbl_return"
    /\ th[Main].ret = "detect"
    /\ contours' = found
    /\ queue_next' = 1
    /\ results' = << >>
    /\ completed' = << >>
    /\ mi' = 1
    /\ running_x_coords' = << >>
    /\ running_y_coords' = << >>
    /\ running_tissue_pct' = << >>
    /\ tile_level' = None
    /\ resize_factor' = None
    /\ th' = [th EXCEPT ![Main].pc = "pool", ![Main].ret = "none"]
    /\ UNCHANGED <<slide, previous, level_spacing_cache, diag, params, filter_params, outcome>>

\* process_single_contour (lines 648-659) starts on a pool thread: line 734.
WorkerTake(w) ==
    /\ th[Main].pc = "pool"
    /\ w <= params.num_workers
    /\ th[w].pc = "idle"
    /\ queue_next <= Len(contours)
    /\ queue_next' = queue_next + 1
    /\ th' = [th EXCEPT ![w] = [CallBestLevel(IdleThread, "process", ProcessVerbose)
                                   EXCEPT !.task = queue_next]]
    /\ UNCHANGED <<slide, previous, level_spacing_cache, diag, request, results, completed,
                   merge, outcome>>

\* A variant that takes the results as the futures complete.
CompletionOrder == completed

\* Lines 662-671: list(executor.map(...)) yields the results in the order of submission.
JoinOrder == [i \in 1..Len(contours) |-> i]

\* The first region, in the order of the join, whose task raised.
FirstRaised(i) ==
    /\ i \in DOMAIN results
    /\ results[i].raised
    /\ \A j \in 1..(i - 1) : j \in DOMAIN results /\ ~results[j].raised

\* Lines 661-671: every result is there, none is an exception.
PoolJoin ==
    /\ th[Main].pc = "pool"
    /\ DOMAIN results = 1..Len(contours)
    /\ \A i \in DOMAIN results : ~results[i].raised
    /\ \A w \in Workers : th[w].pc = "idle"
    /\ th' = [th EXCEPT ![Main].pc = "merge"]
    /\ UNCHANGED <<slide, previous, level_spacing_cache, diag, request, pool, merge, outcome>>

\* Lines 661-671: the join meets a task's exception; the tasks not yet started
\* are cancelled and the with-statement waits for the running ones.
PoolRaise ==
    /\ th[Main].pc = "pool"
    /\ \E i \in 1..Len(contours) : FirstRaised(i)
    /\ queue_next' = Len(contours) + 1
    /\ th' = [th EXCEPT ![Main].pc = "pool_raising"]
    /\ UNCHANGED <<slide, previous, level_spacing_cache, diag, request, results, completed,
                   merge, outcome>>

PoolShutdown ==
    /\ th[Main].pc = "pool_raising"
    /\ \A w \in Workers : th[w].pc = "idle"
    /\ outcome' = [kind |-> "raised", error |-> "ZeroDivisionError"]
    /\ th' = [th EXCEPT ![Main].pc = "done"]
    /\ UNCHANGED <<slide, previous, level_spacing_cache, diag, request, pool, merge>>

\* A variant of the test of line 681 that takes level 0 for no level.
LevelIsSetTruthy(level) == level # None /\ level # Some(0)

\* Line 681: tile_level is not None.
LevelIsSet(level) == level # None

\* A variant in which lines 685-686 are outside the test of line 680.
AssignedOfEveryRegion(current, r, value) == value

\* Lines 680 and 685-686: a region with tiles assigns the request's tile level
\* and resize factor; an empty one leaves them.
Assigned(current, r, value) == IF Len(r.x_coords) > 0 THEN value ELSE current

(***************************************************************************)
(* Lines 673-689: one iteration of the merge loop, over result             *)
(* JoinOrder[mi].  The assertion of lines 682-684 ends the call.           *)
(***************************************************************************)
MergeStep ==
    /\ th[Main].pc = "merge"
    /\ mi <= Len(JoinOrder)
    /\ LET r == results[JoinOrder[mi]]
       IN  IF Len(r.x_coords) > 0
           THEN IF LevelIsSet(tile_level) /\ tile_level # r.tile_level
                THEN /\ outcome' = [kind |-> "raised", error |-> "AssertionError"]
                     /\ th' = [th EXCEPT ![Main].pc = "done"]
                     /\ UNCHANGED merge
                ELSE /\ tile_level' = Assigned(tile_level, r, r.tile_level)
                     /\ resize_factor' = Assigned(resize_factor, r, r.resize_factor)
                     /\ running_x_coords' = running_x_coords \o r.x_coords
                     /\ running_y_coords' = running_y_coords \o r.y_coords
                     /\ running_tissue_pct' = running_tissue_pct \o r.tissue_pct
                     /\ mi' = mi + 1
                     /\ UNCHANGED <<th, outcome>>
           ELSE /\ tile_level' = Assigned(tile_level, r, r.tile_level)
                /\ resize_factor' = Assigned(resize_factor, r, r.resize_factor)
                /\ mi' = mi + 1
                /\ UNCHANGED <<running_x_coords, running_y_coords, running_tissue_pct,
                               th, outcome>>
    /\ UNCHANGED <<slide, previous, level_spacing_cache, diag, request, pool>>

(***************************************************************************)
(* Lines 691-697 and 393-400: process_contours returns and                 *)
(* get_tile_coordinates zips the coordinates and returns.                  *)
(***************************************************************************)
MergeReturn ==
    /\ th[Main].pc = "merge"
    /\ mi > Len(JoinOrder)
    /\ outcome' = [kind |-> "tiles",
                   tile_coordinates |->
                       [k \in 1..Min(Len(running_x_coords), Len(running_y_coords)) |->
                           <<running_x_coords[k], running_y_coords[k]>>],
                   tissue_percentages |-> running_tissue_pct,
                   tile_level |-> tile_level,
                   resize_factor |-> resize_factor,
                   tile_size_lv0 |->
                       (params.tile_size * params.spacing)
                           \div LevelSpacing(level_spacing_cache, 0)]
    /\ th' = [th EXCEPT ![Main].pc = "done"]
    /\ UNCHANGED <<slide, previous, level_spacing_cache, diag, request, pool, merge>>

(***************************************************************************)
(* A direct call of get_level_spacing(level), lines 161-163, by the        *)
(* caller's thread, for any integer: a level not in the cache is read from *)
(* the list self.spacings, which raises IndexError before the cache is     *)
(* written, or is stored under the index given.                            *)
(***************************************************************************)
GetLevelSpacing(level) ==
    /\ th[Main].pc \in {"spacing_call", "done"}
    /\ IF level \in DOMAIN level_spacing_cache \/ IndexOk(level)
       THEN /\ outcome' = [kind |-> "spacing", level |-> level,
                           value |-> LevelSpacing(level_spacing_cache, level)]
            /\ level_spacing_cache' = CacheAfter(level_spacing_cache, level)
       ELSE /\ outcome' = [kind |-> "raised", error |-> "IndexError", level |-> level]
            /\ UNCHANGED level_spacing_cache
    /\ th' = [th EXCEPT ![Main].pc = "done"]
    /\ UNCHANGED <<slide, previous, diag, request, pool, merge>>

(***************************************************************************)
(* filter_contours (lines 402-452) on the contours of the mask.  A contour *)
(* is [area, parent]: cv2.contourArea of it and the index of its parent in *)
(* the hierarchy, -1 for none; contours are indexed from 0 as cv2 does.    *)
(***************************************************************************)
\* line 410: np.flatnonzero(hierarchy[:, 1] == -1)
ForegroundIdx(cs) == {i \in DOMAIN cs : cs[i].parent = -1}

\* line 417: np.flatnonzero(hierarchy[:, 1] == cont_idx)
HolesIdx(cs, i) == {j \in DOMAIN cs : cs[j].parent = i}

RECURSIVE SumAreas(_, _)
SumAreas(cs, S) ==
    IF S = {} THEN 0
    ELSE LET j == CHOOSE x \in S : TRUE
         IN  cs[j].area + SumAreas(cs, S \ {j})

\* lines 419-423: the area of the contour less the areas of its holes
NetArea(cs, i) == cs[i].area - SumAreas(cs, HolesIdx(cs, i))

\* A variant that counts the area of the contour, holes included.
KeepsContourGross(cs, fp, i) ==
    /\ cs[i].area # 0
    /\ cs[i].area > fp.a_t

\* lines 424-428
KeepsContour(cs, fp, i) ==
    /\ NetArea(cs, i) # 0
    /\ NetArea(cs, i) > fp.a_t

\* The members of a set of indexes in ascending order (np.flatnonzero).
RECURSIVE Ascending(_)
Ascending(S) ==
    IF S = {} THEN << >>
    ELSE LET i == CHOOSE x \in S : \A y \in S : x <= y
         IN  <<i>> \o Ascending(S \ {i})

\* lines 413-428: filtered, the foreground contours kept, in index order
FilteredIdx(cs, fp) ==
    Ascending({i \in ForegroundIdx(cs) : KeepsContour(cs, fp, i)})

\* lines 436-438: sorted(..., key=cv2.contourArea, reverse=True); the sort is
\* stable, holes of equal area stay in index order.
RECURSIVE SortedByArea(_, _)
SortedByArea(cs, S) ==
    IF S = {} THEN << >>
    ELSE LET j == CHOOSE x \in S : \A y \in S :
                      \/ cs[x].area > cs[y].area
                      \/ cs[x].area = cs[y].area /\ x <= y
         IN  <<j>> \o SortedByArea(cs, S \ {j})

\* A variant that takes the holes in index order, unsorted.
LargestHolesUnsorted(cs, i, n) ==
    LET hs == Ascending(HolesIdx(cs, i))
    IN  SubSeq(hs, 1, Min(n, Len(hs)))

\* lines 440-442: the slice [:max_n_holes] of the sorted holes (a count, >= 0)
LargestHoles(cs, i, n) ==
    LET hs == SortedByArea(cs, HolesIdx(cs, i))
    IN  SubSeq(hs, 1, Min(n, Len(hs)))

\* lines 443-450: of these, the holes of an area above a_h
FilteredHoles(cs, fp, i) ==
    SelectSeq(LargestHoles(cs, i, fp.max_n_holes), LAMBDA j : cs[j].area > fp.a_h)

\* line 452: (foreground_contours, hole_contours), contours named by their index
filter_contours(cs, fp) ==
    LET kept == FilteredIdx(cs, fp)
    IN  [foreground |-> kept,
         holes |-> [k \in 1..Len(kept) |-> FilteredHoles(cs, fp, kept[k])]]

\* Lines 502-504 of detect_contours: the call of filter_contours returns.
FilterContoursReturn ==
    /\ th[Main].pc = "filter"
    /\ outcome' = [kind |-> "filtered"] @@ filter_contours(mask_contours, filter_params)
    /\ th' = [th EXCEPT ![Main].pc = "done"]
    /\ UNCHANGED <<slide, previous, level_spacing_cache, diag, request, pool, merge>>

(***************************************************************************)
(* A direct call of get_best_level_for_spacing by the caller's thread:     *)
(* line 214 (or 192) returns (level, is_within_tolerance).                 *)
(***************************************************************************)
LevelReturn ==
    /\ th[Main].pc = "gbl_return"
    /\ th[Main].ret = "caller"
    /\ outcome' = [kind |-> "level", level |-> th[Main].level,
                   within |-> th[Main].within]
    /\ th' = [th EXCEPT ![Main].pc = "done"]
    /\ UNCHANGED <<slide, previous, level_spacing_cache, diag, request, pool, merge>>

(***************************************************************************)
(* The state a WholeSlideImage is in after __init__ (lines 87-107):        *)
(* segment_tissue picked seg_level for downsample and looked its spacing   *)
(* up (lines 307-308), so the cache holds that one level.  The diagnostic  *)
(* flag is the process's: another slide may have set it already.           *)
(***************************************************************************)
DefaultDownsample == 32

Targets == SpacingValues \cup {3, 8}
Tolerances == {<<0, 1>>, <<1, 10>>, <<1, 2>>}

NoParams ==
    [spacing |-> 1, tolerance |-> <<0, 1>>, tile_size |-> 1, overlap |-> <<0, 1>>,
     drop_holes |-> FALSE, use_padding |-> TRUE, num_workers |-> 1]

\* FilterParams with every threshold at 0 and room for any number of holes.
NoFilter == [a_t |-> 0, a_h |-> 0, max_n_holes |-> MaxContours]

\* The mask of a slide on which the regions of found are the blobs: one
\* parent-less contour for each, of its bounding rectangle's area.
MaskOf(regions) ==
    [i \in 0..(Len(regions) - 1) |->
        [area |-> regions[i + 1].rect[3] * regions[i + 1].rect[4], parent |-> -1]]

MaskInit ==
    /\ mask_contours = MaskOf(found)
    /\ filter_params = NoFilter

SlideInit(p, flags) ==
    /\ level_dimensions = p.dims
    /\ spacings = p.sp
    /\ seg_level = get_best_level_for_downsample_custom(p.dims, <<DefaultDownsample, 1>>)
    /\ level_spacing_cache = (seg_level :> p.sp[seg_level])
    /\ printed_warning \in flags
    /\ warning_lock = None
    /\ emitted = IF printed_warning THEN 1 ELSE 0

RequestIdle ==
    /\ queue_next = 1
    /\ results = << >>
    /\ completed = << >>
    /\ mi = 1
    /\ running_x_coords = << >>
    /\ running_y_coords = << >>
    /\ running_tissue_pct = << >>
    /\ tile_level = None
    /\ resize_factor = None
    /\ outcome = [kind |-> "none"]
    /\ previous = [kind |-> "none"]

(***************************************************************************)
(* SpecLevel: one call of get_best_level_for_spacing on any pyramid, for   *)
(* any target spacing and tolerance.                                       *)
(***************************************************************************)
InitLevel ==
    /\ \E p \in GeneratedPyramids \cup {ScenarioPyramid} : SlideInit(p, BOOLEAN)
    /\ found = << >>
    /\ MaskInit
    /\ \E s \in Targets \cup {spacings[l] : l \in DOMAIN spacings},
          tol \in Tolerances :
          params = [NoParams EXCEPT !.spacing = s, !.tolerance = tol]
    /\ contours = << >>
    /\ \E v \in BOOLEAN :
          th = [t \in Threads |->
                  IF t = Main THEN CallBestLevel(IdleThread, "caller", v)
                  ELSE IdleThread]
    /\ RequestIdle

NextLevel ==
    \/ GblEntry(Main)
    \/ GblWalk(Main)
    \/ GblWalkEnd(Main)
    \/ LockAcquire(Main)
    \/ LockTest(Main)
    \/ LockPrint(Main)
    \/ LockRelease(Main)
    \/ LevelReturn

SpecLevel == InitLevel /\ [][NextLevel]_vars

(***************************************************************************)
(* Spec: requests get_tile_coordinates(tiling_params, filter_params,       *)
(* num_workers) on one slide, each with the same configuration, the        *)
(* regions processed by a pool of num_workers threads.                     *)
(***************************************************************************)
SeqsUpTo(S, n) == UNION {[1..k -> S] : k \in 0..n}

Pyramid2(d0, d1, s0, s1) ==
    [dims |-> [i \in 0..1 |-> IF i = 0 THEN d0 ELSE d1],
     sp |-> [i \in 0..1 |-> IF i = 0 THEN s0 ELSE s1]]

Pyramid3(d0, d1, d2, s0, s1, s2) ==
    [dims |-> [i \in 0..2 |-> IF i = 0 THEN d0 ELSE IF i = 1 THEN d1 ELSE d2],
     sp |-> [i \in 0..2 |-> IF i = 0 THEN s0 ELSE IF i = 1 THEN s1 ELSE s2]]

RequestPyramids ==
    {Pyramid3(<<16, 16>>, <<8, 8>>, <<4, 4>>, 1, 4, 8),
     Pyramid2(<<16, 16>>, <<8, 8>>, 2, 4)}

RequestTargets == {1, 3}

RegionKinds ==
    {Region(<<0, 0, 4, 4>>, "all", << >>),
     Region(<<8, 8, 4, 2>>, "left", << >>),
     Region(<<4, 4, 2, 2>>, "none", << >>)}

\* The requests: any target and tolerance on the slide of level-0 spacing 1,
\* and the request for a spacing finer than level 0 on the other slide.
RequestCases ==
    {c \in RequestPyramids \X RequestTargets \X {<<0, 1>>, <<1, 2>>} :
        c[1].sp[0] = 1 \/ (c[2] < c[1].sp[0] /\ c[3][1] = 0)}

\* The blobs of a mask are distinct regions.
RegionLists ==
    {f \in SeqsUpTo(RegionKinds, MaxRegions) :
        \A i \in DOMAIN f : \A j \in DOMAIN f : i # j => f[i] # f[j]}

Init ==
    /\ found \in RegionLists
    /\ MaskInit
    /\ \E c \in RequestCases, nw \in {1, MaxWorkers} :
          /\ SlideInit(c[1], {FALSE})
          /\ params = [NoParams EXCEPT !.spacing = c[2], !.tolerance = c[3],
                                       !.tile_size = 1, !.num_workers = nw]
    /\ contours = << >>
    /\ th = [t \in Threads |-> IdleThread]
    /\ RequestIdle

Next ==
    \/ StartRequest
    \/ DetectContoursReturn
    \/ \E w \in Workers : WorkerTake(w)
    \/ \E t \in Threads : BestLevelStep(t)
    \/ \E w \in Workers : ProcessContourBody(w)
    \/ PoolJoin
    \/ PoolRaise
    \/ PoolShutdown
    \/ MergeStep
    \/ MergeReturn

Spec == Init /\ [][Next]_vars

(***************************************************************************)
(* SpecGrid: one call of process_contour on one region, for any pyramid,   *)
(* tiling parameters and bounding rectangle.                               *)
(***************************************************************************)
GridPyramids ==
    {Pyramid2(<<16, 16>>, <<8, 8>>, 1, 2),
     Pyramid2(<<16, 12>>, <<6, 3>>, 1, 3),
     Pyramid2(<<12, 16>>, <<12, 16>>, 2, 2)}

GridRects ==
    {<<x, y, w, h>> : x \in {0, 9}, y \in {0, 5}, w \in {3, 7}, h \in {7}}

GridHoles == {<< >>, << <<0, 0, 4, 4>> >>}

\* The spec's end-to-end grid: one region of 1000 x 1000 pixels at level 0,
\* tile size 256, overlap 0, padding on.
GridScenarioPyramid == Pyramid2(<<1000, 1000>>, <<250, 250>>, 1, 4)

GridScenarioParams ==
    [spacing |-> 1, tolerance |-> <<0, 1>>, tile_size |-> 256, overlap |-> <<0, 1>>,
     drop_holes |-> FALSE, use_padding |-> TRUE, num_workers |-> 1]

GridScenarioRegion == Region(<<0, 0, 1000, 1000>>, "all", << >>)

InitGrid ==
    /\ found = << >>
    /\ MaskInit
    /\ \/ /\ \E p \in GridPyramids : SlideInit(p, BOOLEAN)
          /\ \E s \in {1, 2, 3}, tol \in {<<0, 1>>, <<1, 2>>}, ts \in 1..MaxTileSize,
                ov \in {<<0, 1>>, <<1, 2>>}, dh \in BOOLEAN, pad \in BOOLEAN :
                params = [spacing |-> s, tolerance |-> tol, tile_size |-> ts,
                          overlap |-> ov, drop_holes |-> dh, use_padding |-> pad,
                          num_workers |-> 1]
          /\ \E rect \in GridRects, tissue \in {"all", "left"}, holes \in GridHoles :
                /\ rect[1] + rect[3] <= level_dimensions[0][1]
                /\ rect[2] + rect[4] <= level_dimensions[0][2]
                /\ contours = <<Region(rect, tissue, holes)>>
       \/ /\ SlideInit(GridScenarioPyramid, {FALSE})
          /\ params = GridScenarioParams
          /\ contours = <<GridScenarioRegion>>
    /\ th = [t \in Threads |->
               IF t = Main
               THEN [CallBestLevel(IdleThread, "process", ProcessVerbose)
                        EXCEPT !.task = 1]
               ELSE IdleThread]
    /\ RequestIdle

NextGrid ==
    \/ GblEntry(Main)
    \/ GblWalk(Main)
    \/ GblWalkEnd(Main)
    \/ LockAcquire(Main)
    \/ LockTest(Main)
    \/ LockPrint(Main)
    \/ LockRelease(Main)
    \/ ProcessContourBody(Main)

SpecGrid == InitGrid /\ [][NextGrid]_vars

(***************************************************************************)
(* SpecMerge: the merge loop of process_contours (lines 673-697) over any  *)
(* list of per-region results, as a function of that list.                 *)
(***************************************************************************)
TileResult(xs, ys, level) ==
    [raised |-> FALSE, x_coords |-> xs, y_coords |-> ys,
     tissue_pct |-> [k \in 1..Len(xs) |-> 100],
     tile_level |-> Some(level), resize_factor |-> Some(<<1, level + 1>>)]

EmptyResult ==
    [raised |-> FALSE, x_coords |-> << >>, y_coords |-> << >>, tissue_pct |-> << >>,
     tile_level |-> None, resize_factor |-> None]

MergeResults ==
    {EmptyResult} \cup
    {TileResult(xs, <<4>>, l) : xs \in {<<0>>, <<8>>}, l \in 0..1} \cup
    {TileResult(<<0, 0>>, <<8, 12>>, l) : l \in 0..1}

InitMerge ==
    /\ \E p \in RequestPyramids : SlideInit(p, {FALSE})
    /\ found = << >>
    /\ MaskInit
    /\ params = NoParams
    /\ th = [t \in Threads |->
               IF t = Main THEN [IdleThread EXCEPT !.pc = "merge"] ELSE IdleThread]
    /\ results \in SeqsUpTo(MergeResults, MaxRegions)
    /\ contours = [i \in 1..Len(results) |-> Region(<<0, 0, 1, 1>>, "all", << >>)]
    /\ queue_next = Len(results) + 1
    /\ completed = [i \in 1..Len(results) |-> i]
    /\ mi = 1
    /\ running_x_coords = << >>
    /\ running_y_coords = << >>
    /\ running_tissue_pct = << >>
    /\ tile_level = None
    /\ resize_factor = None
    /\ outcome = [kind |-> "none"]
    /\ previous = [kind |-> "none"]

NextMerge ==
    \/ MergeStep
    \/ MergeReturn

SpecMerge == InitMerge /\ [][NextMerge]_vars

(***************************************************************************)
(* SpecFilter: one call of filter_contours (lines 402-452) on any mask of  *)
(* up to MaxContours contours in a two-level hierarchy (cv2.RETR_CCOMP: a  *)
(* contour is an outer boundary, or a hole whose parent is one), a hole    *)
(* being part of its parent's area.                                        *)
(***************************************************************************)
ContourAreas == {1, 2, 4, 8}

Masks ==
    UNION { {cs \in [0..(n - 1) -> [area : ContourAreas, parent : -1..(n - 1)]] :
                \A i \in 0..(n - 1) :
                    /\ cs[i].parent # -1 =>
                          /\ cs[i].parent # i
                          /\ cs[cs[i].parent].parent = -1
                    /\ cs[i].parent = -1 => NetArea(cs, i) >= 0}
            : n \in 0..MaxContours }

FilterConfigs ==
    [a_t : {1}, a_h : {1}, max_n_holes : {0, 1, 2}]

InitFilter ==
    /\ SlideInit(Pyramid2(<<16, 16>>, <<8, 8>>, 1, 4), {FALSE})
    /\ found = << >>
    /\ mask_contours \in Masks
    /\ filter_params \in FilterConfigs
    /\ params = NoParams
    /\ contours = << >>
    /\ th = [t \in Threads |->
               IF t = Main THEN [IdleThread EXCEPT !.pc = "filter"] ELSE IdleThread]
    /\ RequestIdle

NextFilter == FilterContoursReturn

SpecFilter == InitFilter /\ [][NextFilter]_vars

(***************************************************************************)
(* SpecSpacing: calls of get_level_spacing (lines 151-163), one after the  *)
(* other, with any integer for the level.                                  *)
(***************************************************************************)
LevelArguments == (0 - MaxLevels - 1)..MaxLevels

InitSpacing ==
    /\ \E p \in RequestPyramids : SlideInit(p, {FALSE})
    /\ found = << >>
    /\ MaskInit
    /\ params = NoParams
    /\ contours = << >>
    /\ th = [t \in Threads |->
               IF t = Main THEN [IdleThread EXCEPT !.pc = "spacing_call"] ELSE IdleThread]
    /\ RequestIdle

NextSpacing == \E level \in LevelArguments : GetLevelSpacing(level)

SpecSpacing == InitSpacing /\ [][NextSpacing]_vars

\* The call returned (level, is_within_tolerance).
Returned == outcome.kind = "level"

\* The levels whose spacing is the target spacing.
LevelsAtTarget == {k \in Levels : spacings[k] = params.spacing}

(***************************************************************************)
(* C3.  bestLevelForSpacing(spacingOf(k), tolerance = 0) returns (k, true) *)
(* for every valid level k: as stated, refuted.                            *)
(***************************************************************************)
C3_Original ==
    (Returned /\ params.tolerance[1] = 0) =>
        \A k \in LevelsAtTarget : outcome.level = k /\ outcome.within

(***************************************************************************)
(* C3, amended.  With tolerance 0 and the target the spacing of a level k: *)
(* when the spacing of the initial guess is not below the target, the call *)
(* returns (j, true) with spacingOf(j) = spacingOf(k), and j = k when no   *)
(* other level has that spacing; when the initial guess is a level finer   *)
(* than the target, it returns (guess, false).                             *)
(***************************************************************************)
C3_ExactMatch ==
    (Returned /\ params.tolerance[1] = 0 /\ LevelsAtTarget # {}) =>
        IF spacings[th[Main].guess] >= params.spacing
        THEN /\ outcome.within
             /\ outcome.level \in LevelsAtTarget
        ELSE /\ ~outcome.within
             /\ outcome.level = th[Main].guess

\* C3, witness: an exact match found by walking down from a coarser guess.
C3_Witness ==
    /\ Returned
    /\ params.tolerance[1] = 0
    /\ outcome.within
    /\ LevelsAtTarget = {outcome.level}
    /\ outcome.level > 0
    /\ th[Main].guess > outcome.level

(***************************************************************************)
(* C4.  The returned level is never above the initial guess                *)
(* bestLevelForDownsample(target / spacing(level 0)); a step of the walk   *)
(* lowers the level by exactly one and never below level 0.                *)
(***************************************************************************)
C4_WalkOnlyDown ==
    [][\A t \in Threads :
          /\ (th[t].pc = "gbl_loop" /\ th'[t] # th[t]) =>
                \/ /\ th'[t].pc \in {"lock_acquire", "gbl_return"}
                   /\ th'[t].level = th[t].level
                   /\ ~th'[t].within
                \/ /\ th'[t].level = th[t].level - 1
                   /\ th'[t].level >= 0
                   /\ th'[t].guess = th[t].guess
          /\ th'[t].pc = "gbl_return" =>
                /\ th'[t].guess = get_best_level_for_downsample_custom(
                                      level_dimensions, <<params.spacing, spacings[0]>>)
                /\ th'[t].level <= th'[t].guess
                /\ th'[t].level >= 0]_vars

\* C4, witness: a call that walked two levels down from its guess and returned.
C4_Witness ==
    /\ Returned
    /\ outcome.level + 2 <= th[Main].guess

(***************************************************************************)
(* C5.  The spacing of the returned level is within the tolerance of the   *)
(* target spacing or not above the target spacing (the docstring of        *)
(* get_best_level_for_spacing): refuted by a target finer than level 0.    *)
(***************************************************************************)
C5_NoUpsampling ==
    Returned =>
        \/ WithinTolerance(spacings[outcome.level], params.spacing, params.tolerance)
        \/ spacings[outcome.level] <= params.spacing

(***************************************************************************)
(* C6.  The spec's scenario: levels of spacing 0.25, 1, 4, 16 (downsamples *)
(* 1, 4, 16, 64), target spacing 0.5, tolerance 0.1.                       *)
(***************************************************************************)
Scenario ==
    /\ level_dimensions = ScenarioPyramid.dims
    /\ spacings = ScenarioPyramid.sp
    /\ params.spacing = 2
    /\ params.tolerance = <<1, 10>>

\* C6 as stated (level 1 is selected): refuted.
C6_Original == (Scenario /\ Returned) => outcome.level = 1

\* C6, amended: level 0 is selected, and the tolerance is not met.
C6_ScenarioLevel ==
    (Scenario /\ Returned) => (outcome.level = 0 /\ ~outcome.within)

\* C6, witness: the scenario's call returned.
C6_Witness == Scenario /\ Returned /\ th[Main].guess = 0

(***************************************************************************)
(* Claims on the dispatcher (Spec).                                        *)
(***************************************************************************)
\* The tiles of a per-region result, as (x, y) pairs in the result's order.
TilesOf(r) == [k \in 1..Len(r.x_coords) |-> <<r.x_coords[k], r.y_coords[k]>>]

\* What process_contour returns for region i, given the level the caller's
\* own thread resolved for the request before the pool started.
RegionResult(i) ==
    ContourResult(params, contours[i], th[Main].level, th[Main].within)

RECURSIVE TilesUpTo(_)
TilesUpTo(i) == IF i = 0 THEN << >> ELSE TilesUpTo(i - 1) \o TilesOf(RegionResult(i))

RECURSIVE PctsUpTo(_)
PctsUpTo(i) == IF i = 0 THEN << >> ELSE PctsUpTo(i - 1) \o RegionResult(i).tissue_pct

(***************************************************************************)
(* C1.  For any number of regions, any worker count and any order in which *)
(* the workers finish, the merged tile list the call returns is the        *)
(* concatenation, in the order of submission, of the regions' results,     *)
(* each in its own scan order; it is a function of the slide, the          *)
(* configuration and the regions alone, so the same for 1 and N workers.   *)
(***************************************************************************)
C1_MergedInSubmissionOrder ==
    outcome.kind = "tiles" =>
        /\ \A i \in 1..Len(contours) : results[i] = RegionResult(i)
        /\ outcome.tile_coordinates = TilesUpTo(Len(contours))
        /\ outcome.tissue_percentages = PctsUpTo(Len(contours))

\* C1, witness: two workers, two regions with different tiles, the second
\* region's worker finished first, and the call returned.
C1_Witness ==
    /\ outcome.kind = "tiles"
    /\ params.num_workers >= 2
    /\ Len(contours) >= 2
    /\ completed[1] = 2
    /\ Len(results[1].x_coords) > 0
    /\ Len(results[2].x_coords) > 0
    /\ TilesOf(results[1]) # TilesOf(results[2])

(***************************************************************************)
(* C2.  Under any interleaving of calls that fail to meet the tolerance,   *)
(* the diagnostic is emitted at most once: the flag is tested and set by   *)
(* the thread that holds _warning_lock, and once set it stays set.         *)
(***************************************************************************)
C2_DiagnosticAtMostOnce ==
    /\ emitted <= 1
    /\ emitted >= 1 => printed_warning
    /\ \A t \in Threads :
          th[t].pc \in {"lock_test", "lock_print", "lock_release"} =>
              warning_lock = Some(t)

\* C2, witness: the diagnostic was printed by one worker while another, which
\* failed to meet the tolerance too, waits for the lock.
C2_Witness ==
    \E t \in Workers : \E u \in Workers :
        /\ t # u
        /\ th[t].pc = "lock_release"
        /\ emitted = 1
        /\ th[u].pc = "lock_acquire"

(***************************************************************************)
(* C8.  A region of which no candidate is kept returns empty coordinate    *)
(* and tissue-percentage lists with tile level and resize factor None, and *)
(* the merge loop steps over it: tile_level, resize_factor and the running *)
(* lists are left as they are and the call goes on.                        *)
(***************************************************************************)
C8_EmptyRegionSkipped ==
    [][/\ \A i \in (DOMAIN results') \ (DOMAIN results) :
             (/\ ~results'[i].raised
              /\ FilteredCoordinates(params, contours'[i], th[Main].level,
                                     th[Main].within) = << >>)
                 => results'[i] = EmptyResult
       /\ (/\ th[Main].pc = "merge"
           /\ mi <= Len(JoinOrder)
           /\ results[JoinOrder[mi]].x_coords = << >>)
              => /\ mi' = mi + 1
                 /\ th'[Main].pc = "merge"
                 /\ UNCHANGED <<running_x_coords, running_y_coords, running_tissue_pct,
                                tile_level, resize_factor, outcome>>]_vars

\* C8, witness: the merge loop has stepped over an empty region that follows a
\* region with tiles.
C8_Witness ==
    /\ th[Main].pc = "merge"
    /\ mi = 3
    /\ results[2] = EmptyResult
    /\ Len(results[1].x_coords) > 0
    /\ tile_level = results[1].tile_level
    /\ running_x_coords = results[1].x_coords

(***************************************************************************)
(* C9.  A request whose target spacing is not matched within the tolerance *)
(* leaves the diagnostic emitted, for every number of regions found, zero  *)
(* included: as stated, refuted.                                           *)
(***************************************************************************)
RequestEnded == th[Main].pc = "done"

ToleranceMissed == ~th[Main].within

C9_Original == (RequestEnded /\ ToleranceMissed) => printed_warning

(***************************************************************************)
(* C9, amended.  A request whose target spacing is not matched within the  *)
(* tolerance and in which at least one region is found leaves the          *)
(* diagnostic emitted, once (the call of detect_contours is silent; the    *)
(* first region's worker to take the lock prints).                         *)
(***************************************************************************)
C9_DiagnosticWhenRegions ==
    (RequestEnded /\ ToleranceMissed /\ Len(contours) >= 1) =>
        (printed_warning /\ emitted = 1)

\* C9, witness: such a request has ended, a walk to level 0 included.
C9_Witness ==
    /\ RequestEnded
    /\ ToleranceMissed
    /\ Len(contours) >= 1
    /\ outcome.kind = "tiles"
    /\ th[Main].guess > th[Main].level
    /\ emitted = 1

(***************************************************************************)
(* Claims on the merge loop (SpecMerge).                                   *)
(***************************************************************************)
\* Two regions of the request have tiles and report different tile levels.
LevelsDiffer ==
    \E i \in DOMAIN results : \E j \in DOMAIN results :
        /\ Len(results[i].x_coords) > 0
        /\ Len(results[j].x_coords) > 0
        /\ results[i].tile_level # results[j].tile_level

(***************************************************************************)
(* C7.  If two regions with tiles report different tile levels, the call   *)
(* ends with an AssertionError and returns no merged list; the regions     *)
(* merged so far are never of different levels.                            *)
(***************************************************************************)
C7_LevelMismatchAborts ==
    /\ LevelsDiffer =>
          /\ outcome.kind # "tiles"
          /\ th[Main].pc = "done" =>
                outcome = [kind |-> "raised", error |-> "AssertionError"]
    /\ \A i \in 1..(mi - 1) :
          Len(results[i].x_coords) > 0 => results[i].tile_level = tile_level

\* C7, witness: a region of level 0 was merged, the next with tiles is of level 1,
\* and the call has ended with the assertion's failure.
C7_Witness ==
    /\ LevelsDiffer
    /\ th[Main].pc = "done"
    /\ outcome = [kind |-> "raised", error |-> "AssertionError"]
    /\ tile_level = Some(0)
    /\ mi = 2

(***************************************************************************)
(* Claims on the grid of a region (SpecGrid).                              *)
(***************************************************************************)
GridDone == th[Main].pc = "done" /\ ~results[1].raised

GridCandidates ==
    CoordCandidates(params, contours[1], th[Main].level, th[Main].within)

\* The steps of the grid along x and y, in level-0 pixels.
GridStep == RefStepSize(params, th[Main].level, th[Main].within)

(***************************************************************************)
(* C10.  Without padding, every candidate (x, y) has                       *)
(* x + extent_x <= level-0 width and y + extent_y <= level-0 height, the   *)
(* extent being the resized tile size times the tile level's downsample    *)
(* on the axis (the fraction dim_0 / dim); with padding the candidates     *)
(* cover the bounding box [start, start + size) on each axis.  Refuted     *)
(* without padding: the code clips with the downsample cut to an integer.  *)
(***************************************************************************)
C10_Original ==
    GridDone =>
        LET tsr == TileSizeResized(params, th[Main].level, th[Main].within)
            ds == level_downsamples[th[Main].level]
            rect == contours[1].rect
        IN  IF params.use_padding
            THEN {GridCandidates[k] : k \in DOMAIN GridCandidates} =
                    {<<x, y>> : x \in {v \in rect[1]..(rect[1] + rect[3] - 1) :
                                          (v - rect[1]) % GridStep[1] = 0},
                                y \in {v \in rect[2]..(rect[2] + rect[4] - 1) :
                                          (v - rect[2]) % GridStep[2] = 0}}
            ELSE \A k \in DOMAIN GridCandidates :
                    /\ GridCandidates[k][1] * ds[1][2] + tsr * ds[1][1]
                          <= level_dimensions[0][1] * ds[1][2]
                    /\ GridCandidates[k][2] * ds[2][2] + tsr * ds[2][1]
                          <= level_dimensions[0][2] * ds[2][2]

\* ceil(a / b) for a >= 0 and b > 0.
CeilDiv(a, b) == (a + b - 1) \div b

\* The case of C11: no overlap, padding, tiles read at level 0 within the tolerance.
PlainGrid ==
    /\ GridDone
    /\ params.overlap[1] = 0
    /\ params.use_padding
    /\ th[Main].level = 0
    /\ th[Main].within

(***************************************************************************)
(* C11.  With overlap 0, padding on and the tile level 0 within the        *)
(* tolerance, a region of bounding box w x h has                           *)
(* ceil(w / tile_size) * ceil(h / tile_size) candidates, any two of them   *)
(* at least tile_size apart on some axis; the region of 1000 x 1000 with   *)
(* tile size 256 has the 16 candidates of a 4 x 4 grid.                    *)
(***************************************************************************)
C11_PlainGridCount ==
    PlainGrid =>
        LET ts == params.tile_size
            rect == contours[1].rect
            c == GridCandidates
        IN  /\ Len(c) = CeilDiv(rect[3], ts) * CeilDiv(rect[4], ts)
            /\ \A i \in DOMAIN c : \A j \in DOMAIN c :
                  i # j => \/ Abs(c[i][1] - c[j][1]) >= ts
                           \/ Abs(c[i][2] - c[j][2]) >= ts
            /\ (contours[1] = GridScenarioRegion /\ params = GridScenarioParams) =>
                  /\ Len(c) = 16
                  /\ {c[k] : k \in DOMAIN c} =
                        {0, 256, 512, 768} \X {0, 256, 512, 768}

\* C11, witness: the grid of the 1000 x 1000 region was computed, its last
\* column and row of tiles reaching past the bounding box.
C11_Witness ==
    /\ PlainGrid
    /\ contours[1] = GridScenarioRegion
    /\ params = GridScenarioParams
    /\ Len(results[1].x_coords) = 16
    /\ results[1].x_coords[16] + params.tile_size > 1000

(***************************************************************************)
(* Claims on the contour filter (SpecFilter).                              *)
(***************************************************************************)
Filtered == outcome.kind = "filtered"

\* The contours returned as foreground, and those returned as holes of one.
ReturnedForeground == {outcome.foreground[k] : k \in DOMAIN outcome.foreground}

ReturnedHoles(k) == {outcome.holes[k][h] : h \in DOMAIN outcome.holes[k]}

\* The area of contour i less the areas of the contours whose parent it is.
NetOf(i) ==
    LET S == {j \in DOMAIN mask_contours : mask_contours[j].parent = i}
    IN  mask_contours[i].area - SumAreas(mask_contours, S)

(***************************************************************************)
(* C12.  A parent-less contour is kept if and only if its area less the    *)
(* summed area of its immediate holes is above the scaled threshold a_t    *)
(* and is not zero; of a contour that is not kept no hole is returned, and *)
(* no contour with a parent is returned as foreground.                     *)
(***************************************************************************)
C12_KeepsByNetArea ==
    Filtered =>
        /\ \A i \in DOMAIN mask_contours :
              i \in ReturnedForeground <=>
                 /\ mask_contours[i].parent = -1
                 /\ NetOf(i) > filter_params.a_t
                 /\ NetOf(i) # 0
        /\ Len(outcome.holes) = Len(outcome.foreground)
        /\ \A k \in DOMAIN outcome.holes : \A j \in ReturnedHoles(k) :
              mask_contours[j].parent = outcome.foreground[k]

\* C12, witness: of two blobs with a hole each, one of a net area above the
\* threshold is kept, the other, of a gross area above the threshold and a net
\* area equal to it, is discarded with its hole.
C12_Witness ==
    /\ Filtered
    /\ \E i \in DOMAIN mask_contours : \E j \in DOMAIN mask_contours :
          /\ i \in ReturnedForeground
          /\ j \notin ReturnedForeground
          /\ mask_contours[j].parent = -1
          /\ mask_contours[j].area > filter_params.a_t
          /\ NetOf(j) = filter_params.a_t
          /\ NetOf(j) > 0
          /\ \E h \in DOMAIN mask_contours : mask_contours[h].parent = i

\* The holes of contour i in the mask, and how many of them are larger than hole j.
HolesInMask(i) == {j \in DOMAIN mask_contours : mask_contours[j].parent = i}

LargerHoles(i, j) ==
    {h \in HolesInMask(i) : mask_contours[h].area > mask_contours[j].area}

DistinctAreas(S) ==
    \A a \in S : \A b \in S : a # b => mask_contours[a].area # mask_contours[b].area

(***************************************************************************)
(* C13.  For a kept contour with N holes of distinct areas and             *)
(* max_n_holes = m < N, the holes returned are exactly the holes among the *)
(* m largest whose area is above the scaled threshold a_h: a hole with m   *)
(* or more larger holes is never returned.  They are returned largest      *)
(* first.                                                                  *)
(***************************************************************************)
C13_LargestHolesOnly ==
    Filtered =>
        \A k \in DOMAIN outcome.foreground :
            LET i == outcome.foreground[k]
                m == filter_params.max_n_holes
            IN  (DistinctAreas(HolesInMask(i)) /\ m < Cardinality(HolesInMask(i))) =>
                    /\ ReturnedHoles(k) =
                          {j \in HolesInMask(i) :
                              /\ Cardinality(LargerHoles(i, j)) < m
                              /\ mask_contours[j].area > filter_params.a_h}
                    /\ \A a \in DOMAIN outcome.holes[k] : \A b \in DOMAIN outcome.holes[k] :
                          a < b => mask_contours[outcome.holes[k][a]].area >
                                      mask_contours[outcome.holes[k][b]].area

\* C13, witness: a kept contour with several holes and m = 1; the smallest hole,
\* of an area above a_h and of the least index, is not returned.
C13_Witness ==
    /\ Filtered
    /\ filter_params.max_n_holes = 1
    /\ \E k \in DOMAIN outcome.foreground :
          LET i == outcome.foreground[k]
          IN  /\ Cardinality(HolesInMask(i)) >= 2
              /\ DistinctAreas(HolesInMask(i))
              /\ Cardinality(ReturnedHoles(k)) = 1
              /\ \E j \in HolesInMask(i) :
                    /\ j \notin ReturnedHoles(k)
                    /\ mask_contours[j].area > filter_params.a_h
                    /\ \A h \in HolesInMask(i) : j <= h

(***************************************************************************)
(* Claims on repeated requests (Spec).                                     *)
(***************************************************************************)
(***************************************************************************)
(* C14.  A call of get_tile_coordinates that follows another on the same   *)
(* slide with the same configuration returns what that one returned: the   *)
(* same coordinates in the same order, the same tissue percentages, tile   *)
(* level, resize factor and level-0 tile size (or raises as it raised),    *)
(* whatever the first call left in the level-spacing cache and the         *)
(* diagnostic flag.                                                        *)
(***************************************************************************)
C14_SecondCallSameResult ==
    (RequestEnded /\ previous.kind # "none") => outcome = previous

\* C14, witness: a second call has returned tiles, the first having filled the
\* cache for a level it did not hold and set the diagnostic flag.
C14_Witness ==
    /\ RequestEnded
    /\ previous.kind = "tiles"
    /\ outcome.kind = "tiles"
    /\ Len(outcome.tile_coordinates) > 0
    /\ printed_warning
    /\ Cardinality(DOMAIN level_spacing_cache) = 3

\* The first candidate position of the region on each axis.
GridStart == <<contours[1].rect[1], contours[1].rect[2]>>

\* The tiles emitted for the region, after the tissue and hole filters.
GridTiles == TilesOf(results[1])

(***************************************************************************)
(* C15.  Within a region the candidates are listed with x the              *)
(* fastest-varying coordinate: from one candidate to the next x advances   *)
(* by one step and y stays, or x returns to the start and y advances by    *)
(* one step: as stated, refuted.                                           *)
(***************************************************************************)
C15_Original ==
    GridDone =>
        \A k \in 1..(Len(GridCandidates) - 1) :
            LET a == GridCandidates[k]
                b == GridCandidates[k + 1]
            IN  \/ b[1] = a[1] + GridStep[1] /\ b[2] = a[2]
                \/ b[1] = GridStart[1] /\ b[2] = a[2] + GridStep[2]

(***************************************************************************)
(* C15, amended.  Within a region the candidates are listed with y the     *)
(* fastest-varying coordinate: from one candidate to the next y advances   *)
(* by one step and x stays, or y returns to the start and x advances by    *)
(* one step; the tiles emitted keep that order, ascending in x and, for    *)
(* equal x, in y.                                                          *)
(***************************************************************************)
C15_YFastest ==
    GridDone =>
        /\ \A k \in 1..(Len(GridCandidates) - 1) :
              LET a == GridCandidates[k]
                  b == GridCandidates[k + 1]
              IN  \/ b[2] = a[2] + GridStep[2] /\ b[1] = a[1]
                  \/ b[2] = GridStart[2] /\ b[1] = a[1] + GridStep[1]
        /\ \A i \in DOMAIN GridTiles : \A j \in DOMAIN GridTiles :
              i < j => \/ GridTiles[i][1] < GridTiles[j][1]
                       \/ /\ GridTiles[i][1] = GridTiles[j][1]
                          /\ GridTiles[i][2] < GridTiles[j][2]

\* C15, witness: a grid of several columns and several rows, of which tiles of
\* two columns and two rows were emitted.
C15_Witness ==
    /\ GridDone
    /\ \E i \in DOMAIN GridTiles : \E j \in DOMAIN GridTiles :
          /\ GridTiles[i][1] # GridTiles[j][1]
          /\ GridTiles[i][2] # GridTiles[j][2]
    /\ Len(GridTiles) < Len(GridCandidates)

(***************************************************************************)
(* Claims on get_level_spacing (SpecSpacing).                              *)
(***************************************************************************)
SpacingCalled == outcome.kind = "spacing" \/ (outcome.kind = "raised" /\ outcome.error = "IndexError")

(***************************************************************************)
(* C16.  get_level_spacing(level) fails with IndexError for every integer  *)
(* level outside 0..n-1, n the number of levels, negative levels included, *)
(* and the failing call leaves no entry for the level in the cache: as     *)
(* stated, refuted.                                                        *)
(***************************************************************************)
C16_Original ==
    (SpacingCalled /\ outcome.level \notin 0..(NumLevels - 1)) =>
        /\ outcome.kind = "raised"
        /\ outcome.level \notin DOMAIN level_spacing_cache

(***************************************************************************)
(* C16, amended.  get_level_spacing(level) fails with IndexError for every *)
(* integer level >= n or < -n, and a failing call adds no entry to the     *)
(* cache; for a level in -n..-1 it returns the spacing of level n + level  *)
(* and stores it in the cache under the negative index.                    *)
(***************************************************************************)
C16_IndexErrorOutsideList ==
    /\ DOMAIN level_spacing_cache \subseteq (0 - NumLevels)..(NumLevels - 1)
    /\ SpacingCalled =>
          LET l == outcome.level
          IN  IF l \in (0 - NumLevels)..(NumLevels - 1)
              THEN /\ outcome.kind = "spacing"
                   /\ outcome.value = spacings[IF l < 0 THEN l + NumLevels ELSE l]
                   /\ l \in DOMAIN level_spacing_cache
                   /\ level_spacing_cache[l] = outcome.value
              ELSE /\ outcome.kind = "raised"
                   /\ l \notin DOMAIN level_spacing_cache

\* C16, witness: a call with level -1 returned the spacing of the last level, the
\* cache now holding it under -1, after a call with level n had failed.
C16_Witness ==
    /\ outcome.kind = "spacing"
    /\ outcome.level = -1
    /\ outcome.value = spacings[NumLevels - 1]
    /\ -1 \in DOMAIN level_spacing_cache
    /\ NumLevels \notin DOMAIN level_spacing_cache
    /\ NumLevels >= 2
    /\ Cardinality(DOMAIN level_spacing_cache) >= 2

(***************************************************************************)
(* Claims on the pool phase of process_contours (Spec).                    *)
(***************************************************************************)
PoolPhase == th[Main].pc \in {"pool", "pool_raising"}

(***************************************************************************)
(* C17.  While the pool of process_contours processes the regions, no step *)
(* writes the mask, the pyramid metadata or the level-spacing cache: every *)
(* level a worker looks up is in the cache since detect_contours of the    *)
(* same request.  The diagnostic flag is the one shared variable a worker  *)
(* writes, and it is only ever set.                                        *)
(***************************************************************************)
C17_PoolPhaseReadOnly ==
    [][PoolPhase =>
          /\ slide' = slide
          /\ level_spacing_cache' = level_spacing_cache
          /\ printed_warning => printed_warning']_vars

\* C17, witness: the pool phase is on, a worker has finished a region at a level
\* that is neither level 0 nor the segmentation level, after walking the levels,
\* and another worker is inside get_best_level_for_spacing.
C17_Witness ==
    /\ PoolPhase
    /\ \E i \in DOMAIN results :
          /\ ~results[i].raised
          /\ results[i].tile_level # None
    /\ \E l \in DOMAIN level_spacing_cache : l # 0 /\ l # seg_level
    /\ \E w \in Workers : th[w].pc = "gbl_loop"
    /\ printed_warning

(***************************************************************************)
(* Claims on the resize factor of process_contour (SpecGrid).              *)
(***************************************************************************)
GridEnded == th[Main].pc = "done" /\ 1 \in DOMAIN results

\* The spacing of the level line 734 returned misses the tolerance.
GridMiss ==
    ~WithinTolerance(spacings[th[Main].level], params.spacing, params.tolerance)

\* The resize factor a / b is the number 1.
IsOne(f) == f[1] = f[2]

(***************************************************************************)
(* C18.  For a region that yields at least one tile, the resize factor     *)
(* returned is 1.0 exactly when the spacing of the tile level returned is  *)
(* within the tolerance of the target spacing, and is otherwise the target *)
(* spacing divided by that level's spacing; and a call whose level misses  *)
(* the tolerance raises no error where the same call with a resize factor  *)
(* of 1.0 raises none.  Refuted in its last part: with the level coarser   *)
(* than the target the resized tile size and the step can be 0, and        *)
(* np.arange raises.                                                       *)
(***************************************************************************)
C18_Original ==
    GridEnded =>
        /\ (Len(results[1].x_coords) > 0) =>
              LET level == results[1].tile_level[1]
                  rf == results[1].resize_factor[1]
                  hit == WithinTolerance(spacings[level], params.spacing, params.tolerance)
              IN  /\ IsOne(rf) <=> hit
                  /\ ~hit => rf = <<params.spacing, spacings[level]>>
        /\ (GridMiss /\ ~ZeroStep(params, th[Main].level, TRUE)) => ~results[1].raised

(***************************************************************************)
(* Claims on what process_contours returns for the request (Spec).         *)
(***************************************************************************)
\* The regions of the request, by index of submission, that yielded a tile.
WithTiles == {i \in 1..Len(contours) : Len(results[i].x_coords) > 0}

FirstWithTiles == CHOOSE i \in WithTiles : \A j \in WithTiles : i <= j

(***************************************************************************)
(* C19.  The tile level and the resize factor a request returns are those  *)
(* of the first region, in the order of submission, that yielded at least  *)
(* one tile; when every region is empty, or there is no region, both are   *)
(* None and the lists of coordinates and of tissue percentages are empty.  *)
(***************************************************************************)
C19_LevelOfFirstRegionWithTiles ==
    (outcome.kind = "tiles") =>
        IF WithTiles = {}
        THEN /\ outcome.tile_level = None
             /\ outcome.resize_factor = None
             /\ outcome.tile_coordinates = << >>
             /\ outcome.tissue_percentages = << >>
        ELSE /\ outcome.tile_level = results[FirstWithTiles].tile_level
             /\ outcome.resize_factor = results[FirstWithTiles].resize_factor
             /\ outcome.tile_level # None
             /\ outcome.resize_factor # None

\* C19, witness: a request of two regions returned, its first region with tiles
\* and its second empty, at a level other than 0.
C19_Witness ==
    /\ outcome.kind = "tiles"
    /\ Len(contours) = 2
    /\ WithTiles = {1}
    /\ outcome.tile_level # Some(0)
    /\ outcome.tile_level = results[1].tile_level
    /\ results[2].tile_level = None

====
